---- MODULE Spec2Model ----
(***************************************************************************)
(* A model of knowledge.py: the Symbol classes, the register-annotation    *)
(* filter, KnowledgeBase (add_symbols, gen_thunk, build_header, build_def, *)
(* serialize, deserialize).                                                *)
(*                                                                         *)
(* Text is modelled as a sequence of one-character strings, so that the    *)
(* regular expression, find(), slicing, hex() and int(.,16) are computed   *)
(* character by character as Python computes them.                         *)
(*                                                                         *)
(* An optional value (Python's None or a value) is a sequence of length 0  *)
(* or 1: <<>> is None, <<v>> is v.                                         *)
(***************************************************************************)
EXTENDS Integers, Sequences, FiniteSets, TLC

VARIABLES
    heap,               \* the Symbol objects alive: heap[i] is the object with identity i
    symbols,            \* kb.symbols: list of object identities
    object_to_symbols,  \* kb.object_to_symbols: defaultdict(list), bucket key -> identities
    symbol_to_object,   \* kb.symbol_to_object: identity -> bucket key
    object_to_source,   \* kb.object_to_source: bucket key -> source path
    name_to_addr,       \* kb.name_to_addr: resolved name -> address
    addr_to_symbol,     \* kb.addr_to_symbol: address (optional) -> identity
    kb_file,            \* the contents of kb.json
    written,            \* what the last operation wrote to the generated files, which
                        \* nothing reads back: src/decl_generated.h, src/thunks.c,
                        \* src/halo.xbe.def
    call,               \* the last operation called, what it logged and returned
    err                 \* the exception that ended the run, "" while it runs

vars == <<heap, symbols, object_to_symbols, symbol_to_object, object_to_source,
          name_to_addr, addr_to_symbol, kb_file, written, call, err>>

-----------------------------------------------------------------------------
(* Bounds of the model.                                                    *)

\* the most entries of kb.symbols that add_symbols may reach
MaxSyms == 2
\* the most entries of the "objects" list of an initial kb.json
MaxObjs == 2
\* the most parameters of a declaration given to gen_thunk
MaxParams == 3

-----------------------------------------------------------------------------
(* Text.                                                                   *)

None == <<>>
Some(v) == <<v>>

\* F(x), with x evaluated once before F uses it
Let(x, F(_)) == CHOOSE r \in {F(v) : v \in {x}} : TRUE

S_void == <<"v","o","i","d">>
S_int == <<"i","n","t">>
S_char == <<"c","h","a","r">>
S_short == <<"s","h","o","r","t">>
S_return == <<"r","e","t","u","r","n"," ">>
S_xbe == <<"_","_","x","b","e">>

Letters == {"a","b","c","d","e","f","g","h","i","j","k","l","m","n","o","p","q",
            "r","s","t","u","v","w","x","y","z","A","B","C","D","E","F","G","H",
            "I","J","K","L","M","N","O","P","Q","R","S","T","U","V","W","X","Y","Z"}
Digits == {"0","1","2","3","4","5","6","7","8","9"}

\* \w of Python's re, on the characters the declarations use
IsWordChar(c) == c \in Letters \cup Digits \cup {"_"}

\* the last index e >= k-1 with s[k..e] all word characters
RECURSIVE WordRunEnd(_, _)
WordRunEnd(s, k) ==
    IF k <= Len(s) /\ IsWordChar(s[k]) THEN WordRunEnd(s, k + 1) ELSE k - 1

\* reg_filter_re = @<(\w+)> matched at index i: the index of its ">", or 0
RegMatchEnd(s, i) ==
    IF i + 3 <= Len(s) /\ s[i] = "@" /\ s[i + 1] = "<"
    THEN LET e == WordRunEnd(s, i + 2)
         IN  IF e >= i + 2 /\ e + 1 <= Len(s) /\ s[e + 1] = ">" THEN e + 1 ELSE 0
    ELSE 0

\* reg_filter_re.search(s): the index of the leftmost match, or 0
RECURSIVE RegSearchFrom(_, _)
RegSearchFrom(s, i) ==
    IF i > Len(s) THEN 0
    ELSE IF RegMatchEnd(s, i) > 0 THEN i
    ELSE RegSearchFrom(s, i + 1)

reg_filter_search(s) == RegSearchFrom(s, 1)

\* match.group(1)
RegGroup(s, i) == SubSeq(s, i + 2, RegMatchEnd(s, i) - 1)

\* reg_filter_re.sub('', s): every match removed, left to right
RECURSIVE FilterFrom(_, _)
FilterFrom(s, i) ==
    IF i > Len(s) THEN <<>>
    ELSE IF RegMatchEnd(s, i) > 0 THEN FilterFrom(s, RegMatchEnd(s, i) + 1)
    ELSE <<s[i]>> \o FilterFrom(s, i + 1)

\* a filter that leaves the annotations in
filter_reg_assignments_kept(decl) == decl

filter_reg_assignments(s) == FilterFrom(s, 1)

\* str.find(ch) as Python counts: the 0-based index of the first ch, or -1
RECURSIVE FindFrom(_, _, _)
FindFrom(s, ch, i) ==
    IF i > Len(s) THEN -1
    ELSE IF s[i] = ch THEN i - 1
    ELSE FindFrom(s, ch, i + 1)

Find(s, ch) == FindFrom(s, ch, 1)

\* sep.join(parts)
RECURSIVE Join(_, _)
Join(parts, sep) ==
    IF Len(parts) = 0 THEN <<>>
    ELSE IF Len(parts) = 1 THEN parts[1]
    ELSE parts[1] \o sep \o Join(Tail(parts), sep)

\* the characters of the declarations in ASCII order
AsciiOrder == <<" ","(",")","*",",","0","1","2","3","4","5","6","7","8","9",";","<",
                ">","@","A","B","C","D","E","F","G","H","I","J","K","L","M","N","O",
                "P","Q","R","S","T","U","V","W","X","Y","Z","_","a","b","c","d","e",
                "f","g","h","i","j","k","l","m","n","o","p","q","r","s","t","u","v",
                "w","x","y","z">>

Ord(c) == CHOOSE i \in 1..Len(AsciiOrder) : AsciiOrder[i] = c

\* a < b for two str, as Python compares them
RECURSIVE StrLess(_, _)
StrLess(a, b) ==
    IF Len(b) = 0 THEN FALSE
    ELSE IF Len(a) = 0 THEN TRUE
    ELSE IF a[1] = b[1] THEN StrLess(Tail(a), Tail(b))
    ELSE Ord(a[1]) < Ord(b[1])

HexDigits == <<"0","1","2","3","4","5","6","7","8","9","a","b","c","d","e","f">>

RECURSIVE HexDigitsOf(_)
HexDigitsOf(n) ==
    IF n < 16 THEN <<HexDigits[n + 1]>>
    ELSE HexDigitsOf(n \div 16) \o <<HexDigits[(n % 16) + 1]>>

\* hex(n) for n >= 0
hex(n) == <<"0", "x">> \o HexDigitsOf(n)

HexValue(c) ==
    IF c \in {"A","B","C","D","E","F"}
    THEN CHOOSE v \in 10..15 : HexDigits[v + 1] = <<"a","b","c","d","e","f">>[
             CHOOSE k \in 1..6 : <<"A","B","C","D","E","F">>[k] = c]
    ELSE CHOOSE v \in 0..15 : HexDigits[v + 1] = c

RECURSIVE HexFold(_, _)
HexFold(s, acc) ==
    IF Len(s) = 0 THEN acc ELSE HexFold(Tail(s), acc * 16 + HexValue(s[1]))

\* int(s, 16) for a well-formed s, with or without the 0x prefix
int16(s) ==
    IF Len(s) >= 2 /\ s[1] = "0" /\ s[2] \in {"x", "X"}
    THEN HexFold(SubSeq(s, 3, Len(s)), 0)
    ELSE HexFold(s, 0)

\* f'{n:#x}'
FormatHex(n) == hex(n)

\* the order of two sort keys; a key is a pair (n, s) of a number and a str,
\* compared as Python compares tuples
KeyLess(a, b) == a.n < b.n \/ (a.n = b.n /\ StrLess(a.s, b.s))

\* sorted(seq, key=Key): the element of key k goes after the elements of a
\* smaller key and, sorted() being stable, after the earlier ones of the same key
SortedByKeys(seq, keys) ==
    LET place(i) == 1 + Cardinality({j \in 1..Len(seq) :
                           KeyLess(keys[j], keys[i]) \/ (~KeyLess(keys[i], keys[j]) /\ j < i)})
    IN  [p \in 1..Len(seq) |-> seq[CHOOSE i \in 1..Len(seq) : place(i) = p]]

Sorted(seq, Key(_)) ==
    Let(seq, LAMBDA q : Let([i \in 1..Len(q) |-> Key(q[i])], LAMBDA keys : SortedByKeys(q, keys)))

-----------------------------------------------------------------------------
(* The declaration parser (clang.cindex), on the declarations of the model: *)
(* <type> <name>; and <type> <name>(<type> <name>, ...);                   *)

\* the tokens of a text: its words, and its punctuation one character each
RECURSIVE TokensFrom(_, _)
TokensFrom(s, i) ==
    IF i > Len(s) THEN <<>>
    ELSE IF s[i] = " " THEN TokensFrom(s, i + 1)
    ELSE IF IsWordChar(s[i])
    THEN <<SubSeq(s, i, WordRunEnd(s, i))>> \o TokensFrom(s, WordRunEnd(s, i) + 1)
    ELSE <<<<s[i]>>>> \o TokensFrom(s, i + 1)

Tokens(s) == TokensFrom(s, 1)

\* the index of the first token equal to tok at or after i, or 0
RECURSIVE TokenIndex(_, _, _)
TokenIndex(toks, tok, i) ==
    IF i > Len(toks) THEN 0
    ELSE IF toks[i] = tok THEN i
    ELSE TokenIndex(toks, tok, i + 1)

\* the groups of tokens between the separators
RECURSIVE SplitTokens(_, _, _)
SplitTokens(toks, sep, cur) ==
    IF Len(toks) = 0 THEN <<cur>>
    ELSE IF toks[1] = sep THEN <<cur>> \o SplitTokens(Tail(toks), sep, <<>>)
    ELSE SplitTokens(Tail(toks), sep, cur \o <<toks[1]>>)

RECURSIVE KeepParams(_)
KeepParams(groups) ==
    IF Len(groups) = 0 THEN <<>>
    ELSE IF Len(groups[1]) = 0 \/ groups[1] = <<S_void>>
    THEN KeepParams(Tail(groups))
    ELSE <<[type     |-> Join(SubSeq(groups[1], 1, Len(groups[1]) - 1), <<" ">>),
            spelling |-> groups[1][Len(groups[1])]]>> \o KeepParams(Tail(groups))

\* parse_string(decl).cursor.get_children()[-1]: the declaration is parsed with
\* its annotations filtered out
ParseTokens(toks) ==
    LET lp   == TokenIndex(toks, <<"(">>, 1)
        semi == TokenIndex(toks, <<";">>, 1)
        rp   == TokenIndex(toks, <<")">>, lp + 1)
    IN  IF lp = 0
        THEN [kind        |-> "VAR_DECL",
              spelling    |-> toks[(IF semi = 0 THEN Len(toks) + 1 ELSE semi) - 1],
              result_type |-> <<>>,
              arguments   |-> <<>>]
        ELSE [kind        |-> "FUNCTION_DECL",
              spelling    |-> toks[lp - 1],
              result_type |-> Join(SubSeq(toks, 1, lp - 2), <<" ">>),
              arguments   |-> Let(SplitTokens(SubSeq(toks, lp + 1, rp - 1), <<",">>, <<>>),
                                  LAMBDA groups : KeepParams(groups))]

parse_string(decl) == Let(Tokens(filter_reg_assignments(decl)), LAMBDA toks : ParseTokens(toks))

\* Symbol.cursor
cursor(s) == parse_string(s.decl)

\* Symbol.name, with clang available
name(s) == cursor(s).spelling

\* cursor.mangled_name of a C declaration of the 32-bit target
mangled_name(s) == <<"_">> \o name(s)

-----------------------------------------------------------------------------
(* Symbol, Data, Function.                                                 *)

\* Symbol.__init__(decl, addr): addr is None, an int, or a str of hex digits
Symbol__init__(cls, decl, addr) ==
    [cls  |-> cls,
     decl |-> decl,
     addr |-> IF addr.t = "str" THEN Some(int16(addr.v))
              ELSE IF addr.t = "int" THEN Some(addr.v)
              ELSE None]

isFunction(s) == s.cls = "Function"
isData(s) == s.cls = "Data"

\* Symbol.serialize raises TypeError when addr is None: hex(None)
SymbolSerializeRaises(s) == s.addr = None

\* Symbol.serialize
SymbolSerialize(s) == [decl |-> s.decl, addr |-> [t |-> "str", v |-> hex(s.addr[1])]]

\* Symbol.requires_reg_thunk, overridden by Function
\* the property of Symbol, not overridden
requires_reg_thunk_Symbol(s) == FALSE

requires_reg_thunk(s) ==
    IF isFunction(s) THEN reg_filter_search(s.decl) # 0 ELSE FALSE

-----------------------------------------------------------------------------
(* KnowledgeBase.gen_thunk.                                                *)

NoThunk(status) ==
    [status |-> status, new_func_decl |-> <<>>, addr |-> <<>>, signature |-> <<>>,
     reg |-> <<>>, mov_arg |-> <<>>, ret |-> <<>>, callee |-> <<>>, call_args |-> <<>>]

\* '%s %s' % (a.type.spelling, a.spelling)
ArgText(a) == a.type \o <<" ">> \o a.spelling

\* new_func_decl, lines 103-109
NewFuncDecl(rtype, fname, args, reg) ==
    rtype \o <<" ","(","*">> \o fname \o <<"_","_","x","b","e",")","(","/","*"," ">>
          \o args[1].type \o <<" ">> \o args[1].spelling \o <<"@","<">> \o reg \o <<">">>
          \o (IF Len(args) > 1
              THEN <<","," ","*","/"," ">> \o Join([i \in 1..Len(args) |-> ArgText(args[i])], <<","," ">>)
              ELSE <<" ","*","/"," ","v","o","i","d">>)
          \o <<")">>

\* the parts of the text gen_thunk returns, one per placeholder of its template:
\*   <new_func_decl> = (void*)<addr>;
\*   __attribute__((weak))
\*   __attribute__((section("thunks")))
\*   <signature> {
\*     asm mov <reg>, <mov_arg>;
\*     <ret><callee>(<call_args>);
\*   }
\* or the exception it raises
ThunkText(s, match, c) ==
    LET rtype == c.result_type
        fname == c.spelling
        args  == c.arguments
        reg   == RegGroup(s.decl, match)
    IN  IF Len(args) = 0 THEN NoThunk("IndexError")
        ELSE IF s.addr = None THEN NoThunk("TypeError")
        ELSE [status        |-> "ok",
              new_func_decl |-> NewFuncDecl(rtype, fname, args, reg),
              addr          |-> FormatHex(s.addr[1]),
              signature     |-> Let(filter_reg_assignments(s.decl),
                                    LAMBDA d : SubSeq(d, 1, Len(d) - 1)),
              reg           |-> reg,
              mov_arg       |-> args[1].spelling,
              ret           |-> IF rtype # S_void THEN S_return ELSE <<>>,
              callee        |-> fname \o S_xbe,
              call_args     |-> Join([i \in 1..(Len(args) - 1) |-> args[i + 1].spelling],
                                     <<",", " ">>)]

gen_thunk(s) ==
    LET match == reg_filter_search(s.decl)
        text_before == SubSeq(s.decl, 1, match - 1)
    IN  IF match = 0 THEN NoThunk("AssertionError")
        ELSE IF ~(Find(text_before, ",") < 0) THEN NoThunk("AssertionError")
        ELSE IF ~(Find(text_before, "(") > 0) THEN NoThunk("AssertionError")
        ELSE Let(cursor(s), LAMBDA c : ThunkText(s, match, c))

-----------------------------------------------------------------------------
(* KnowledgeBase: dictionaries are functions, `in` is membership in DOMAIN. *)

\* d[k] = v
Put(d, k, v) == [x \in (DOMAIN d) \cup {k} |-> IF x = k THEN v ELSE d[x]]

\* d.get(k, default)
Get(d, k, default) == IF k \in DOMAIN d THEN d[k] ELSE default

\* defaultdict(list): reading d[k] inserts an empty list under a missing key
Touch(d, k) == IF k \in DOMAIN d THEN d ELSE Put(d, k, <<>>)

\* KnowledgeBase.__init__
KnowledgeBase__init__ ==
    [heap              |-> <<>>,
     symbols           |-> <<>>,
     object_to_symbols |-> <<>>,
     symbol_to_object  |-> <<>>,
     object_to_source  |-> <<>>,
     name_to_addr      |-> <<>>]

\* KnowledgeBase.add_symbols: self.symbols.extend(symbols)
add_symbols(syms, batch) == syms \o batch

\* sorted(n for n in self.object_to_symbols if n is not None) + [None]
NameKey(k) == [n |-> 0, s |-> k[1]]

RECURSIVE SetToSeq(_)
SetToSeq(S) ==
    IF S = {} THEN <<>>
    ELSE LET x == CHOOSE x \in S : TRUE IN <<x>> \o SetToSeq(S \ {x})

ObjectOrder(o2s) == Sorted(SetToSeq({k \in DOMAIN o2s : k # None}), NameKey) \o <<None>>

\* key=lambda s: s.name
KindNameKey_name(h, id) == [n |-> 0, s |-> name(h[id])]

\* key=lambda s: (isinstance(s, Function), s.name)
KindNameKey(h, id) == [n |-> IF isFunction(h[id]) THEN 1 ELSE 0, s |-> name(h[id])]

\* key=lambda s: s.addr
AddrKey(h, id) == [n |-> h[id].addr[1], s |-> <<>>]

-----------------------------------------------------------------------------
(* KnowledgeBase.deserialize.                                              *)

\* lines 217-221: the loop over obj_syms
RECURSIVE AttributeLoaded(_, _, _)
AttributeLoaded(kb, ids, key) ==
    IF Len(ids) = 0 THEN kb
    ELSE LET id == ids[1]
             s  == kb.heap[id]
         IN  AttributeLoaded(
                 [kb EXCEPT
                    !.object_to_symbols = Put(@, key, Append(Get(@, key, <<>>), id)),
                    !.symbol_to_object  = Put(@, id, key),
                    !.name_to_addr      = IF s.addr # None /\ s.addr[1] # 0
                                          THEN Put(@, name(s), s.addr[1])
                                          ELSE @],
                 Tail(ids), key)

\* lines 208-221: one entry of serialized_kb['objects']
DeserializeObject(kb, o) ==
    LET withSource == IF o.source # None
                      THEN [kb EXCEPT !.object_to_source = Put(@, o.name, o.source[1])]
                      ELSE kb
        funcs == IF o.functions # None
                 THEN [i \in 1..Len(o.functions[1]) |->
                          Symbol__init__("Function", o.functions[1][i].decl, o.functions[1][i].addr)]
                 ELSE <<>>
        data  == IF o.data # None
                 THEN [i \in 1..Len(o.data[1]) |->
                          Symbol__init__("Data", o.data[1][i].decl, o.data[1][i].addr)]
                 ELSE <<>>
        obj_syms == funcs \o data
        ids == [i \in 1..Len(obj_syms) |-> Len(kb.heap) + i]
    IN  IF Len(obj_syms) = 0 THEN withSource
        ELSE AttributeLoaded([withSource EXCEPT !.heap = @ \o obj_syms,
                                                !.symbols = add_symbols(@, ids)],
                             ids, o.name)

RECURSIVE DeserializeObjects(_, _)
DeserializeObjects(kb, objects) ==
    IF Len(objects) = 0 THEN kb
    ELSE DeserializeObjects(DeserializeObject(kb, objects[1]), Tail(objects))

\* line 227: {s.addr: s for s in kb.symbols}; a later symbol replaces an earlier one
AddrToSymbol(h, syms) ==
    [a \in {h[syms[i]].addr : i \in 1..Len(syms)} |->
        syms[CHOOSE i \in 1..Len(syms) :
                /\ h[syms[i]].addr = a
                /\ \A j \in (i + 1)..Len(syms) : h[syms[j]].addr # a]]

\* lines 229-234: what deserialize logs
DeserializeLog(kb) ==
    LET with_truth == Cardinality({i \in 1..Len(kb.symbols) :
                                      kb.symbol_to_object[kb.symbols[i]] # None})
    IN  <<[msg |-> "identified", n |-> with_truth, m |-> Len(kb.symbols) - with_truth],
          [msg |-> "source", n |-> Cardinality({o \in DOMAIN kb.object_to_source :
                                                    o \in DOMAIN kb.object_to_symbols}),
           m |-> Cardinality(DOMAIN kb.object_to_symbols)]>>

\* the knowledge base deserialize builds from the objects of kb.json
LoadKB(objects) == DeserializeObjects(KnowledgeBase__init__, objects)

-----------------------------------------------------------------------------
(* KnowledgeBase.serialize.                                                *)

\* lines 178-181: symbols with no object go to the None object
RECURSIVE Finalize(_, _, _)
Finalize(syms, o2s, s2o) ==
    IF Len(syms) = 0 THEN [object_to_symbols |-> o2s, symbol_to_object |-> s2o]
    ELSE IF syms[1] \notin DOMAIN s2o
    THEN Finalize(Tail(syms), Put(o2s, None, Append(Get(o2s, None, <<>>), syms[1])),
                  Put(s2o, syms[1], None))
    ELSE Finalize(Tail(syms), o2s, s2o)

\* lines 188-197: the entry of one object
ObjectEntry(h, o2src, obj, byAddr) ==
    LET data   == SelectSeq(byAddr, LAMBDA id : isData(h[id]))
        funcs  == SelectSeq(byAddr, LAMBDA id : isFunction(h[id]))
    IN  [name      |-> obj,
         source    |-> IF obj \in DOMAIN o2src THEN Some(o2src[obj]) ELSE None,
         data      |-> IF Len(data) > 0
                       THEN Some([i \in 1..Len(data) |-> SymbolSerialize(h[data[i]])])
                       ELSE None,
         functions |-> IF Len(funcs) > 0
                       THEN Some([i \in 1..Len(funcs) |-> SymbolSerialize(h[funcs[i]])])
                       ELSE None]

SerializeObject(h, o2src, obj, syms) ==
    Let(Sorted(syms, LAMBDA id : AddrKey(h, id)), LAMBDA byAddr : ObjectEntry(h, o2src, obj, byAddr))

\* lines 184-197: the loop over the objects; sorting by a None address and
\* hex(None) both raise TypeError
RECURSIVE SerializeObjects(_, _, _, _, _)
SerializeObjects(h, o2src, keys, o2s, out) ==
    IF Len(keys) = 0 THEN [object_to_symbols |-> o2s, objects |-> out, err |-> ""]
    ELSE LET obj  == keys[1]
             d    == Touch(o2s, obj)
             syms == d[obj]
         IN  IF Len(syms) = 0 THEN SerializeObjects(h, o2src, Tail(keys), d, out)
             ELSE IF \E i \in 1..Len(syms) : SymbolSerializeRaises(h[syms[i]])
             THEN [object_to_symbols |-> d, objects |-> out, err |-> "TypeError"]
             ELSE SerializeObjects(h, o2src, Tail(keys), d,
                                   Append(out, SerializeObject(h, o2src, obj, syms)))

-----------------------------------------------------------------------------
(* KnowledgeBase.build_header and build_def.                               *)

Line(kind, obj, src, sym, text) ==
    [kind |-> kind, obj |-> obj, src |-> src, sym |-> sym, text |-> text]

\* lines 141-149: what one symbol adds to the two files, or the exception of
\* gen_thunk
HeaderSymbol(h, id) ==
    LET s == h[id]
        hfunc == Line("HFUNC", None, None, id, filter_reg_assignments(s.decl))
    IN  IF isData(s)
        THEN [lines |-> <<Line("HDATA", None, None, id, s.decl)>>, thunks |-> <<>>, err |-> ""]
        ELSE IF isFunction(s)
        THEN IF requires_reg_thunk(s)
             THEN Let(gen_thunk(s), LAMBDA t :
                      IF t.status # "ok"
                      THEN [lines |-> <<>>, thunks |-> <<>>, err |-> t.status]
                      ELSE [lines |-> <<hfunc>>, thunks |-> <<t>>, err |-> ""])
             ELSE [lines |-> <<hfunc>>, thunks |-> <<>>, err |-> ""]
        ELSE [lines |-> <<>>, thunks |-> <<>>, err |-> ""]

\* the loop running over the writes wrote[1], wrote[2], ... until one raises;
\* what the one that raises wrote before it did is kept; n counts the rounds begun
RECURSIVE WriteUntilError(_, _, _)
WriteUntilError(wrote, i, acc) ==
    IF i > Len(wrote) THEN acc
    ELSE IF wrote[i].err # ""
    THEN [acc EXCEPT !.lines = @ \o wrote[i].lines, !.thunks = @ \o wrote[i].thunks,
                     !.err = wrote[i].err, !.n = i]
    ELSE WriteUntilError(wrote, i + 1,
             [acc EXCEPT !.lines = @ \o wrote[i].lines, !.thunks = @ \o wrote[i].thunks,
                         !.n = i])

\* lines 138-150: one object: its comment line, its symbols sorted, a blank line
HeaderObject(h, o2src, obj, syms) ==
    LET sect == Line("section", obj,
                     IF obj \in DOMAIN o2src THEN Some(o2src[obj]) ELSE None, 0, <<>>)
        done(sorted) ==
            Let(WriteUntilError([i \in 1..Len(sorted) |-> HeaderSymbol(h, sorted[i])], 1,
                                [lines |-> <<sect>>, thunks |-> <<>>, err |-> "", n |-> 0]),
                LAMBDA w : IF w.err # "" THEN w
                           ELSE [w EXCEPT !.lines = Append(@, Line("blank", None, None, 0, <<>>))])
    IN  Let(Sorted(syms, LAMBDA id : KindNameKey(h, id)), LAMBDA sorted : done(sorted))

\* lines 136-137: objs_sorted + [None], each read from the defaultdict
RECURSIVE TouchAll(_, _)
TouchAll(d, keys) ==
    IF Len(keys) = 0 THEN d ELSE TouchAll(Touch(d, keys[1]), Tail(keys))

\* build_header: what it writes to the two files, the dictionary it leaves, and
\* the exception that interrupts it
HeaderOf(h, o2s, o2src, order) ==
    Let(WriteUntilError([k \in 1..Len(order) |->
                            HeaderObject(h, o2src, order[k], Get(o2s, order[k], <<>>))], 1,
                        [lines |-> <<Line("banner", None, None, 0, <<>>)>>,
                         thunks |-> <<>>, err |-> "", n |-> 0]),
        LAMBDA w :
            [lines  |-> IF w.err # "" THEN w.lines
                        ELSE Append(w.lines, Line("footer", None, None, 0, <<>>)),
             thunks |-> w.thunks,
             err    |-> w.err,
             object_to_symbols |-> TouchAll(o2s, SubSeq(order, 1, w.n))])

build_header(h, o2s, o2src) ==
    Let(ObjectOrder(o2s), LAMBDA order : HeaderOf(h, o2s, o2src, order))

\* line 169: one line of the definition file
DefLine(h, id) ==
    Line("export", None, None, id,
         mangled_name(h[id]) \o (IF isData(h[id]) THEN <<" ","D","A","T","A">> ELSE <<>>))

\* build_def: the lines it writes
DefLines(h, sorted) ==
    Let(SelectSeq(sorted, LAMBDA id : ~requires_reg_thunk(h[id])),
        LAMBDA kept : <<Line("library", None, None, 0, <<>>)>>
                          \o [i \in 1..Len(kept) |-> DefLine(h, kept[i])])

build_def(h, syms) ==
    Let(Sorted(syms, LAMBDA id : KindNameKey(h, id)), LAMBDA sorted : DefLines(h, sorted))

-----------------------------------------------------------------------------
(* The inputs: declarations, addresses, snapshots.                         *)

ParamPool == <<[type |-> S_int,   spelling |-> <<"a">>],
               [type |-> S_char,  spelling |-> <<"b">>],
               [type |-> S_int,   spelling |-> <<"c">>],
               [type |-> S_short, spelling |-> <<"d">>],
               [type |-> S_int,   spelling |-> <<"e">>]>>

Annotation(reg) == <<"@","<">> \o reg \o <<">">>

\* the declaration  rtype fname(type a, type b, ...);  with one annotation:
\* pos = 0 none, pos = -1 on the function (the return value), pos = k on the
\* k-th parameter
BuildDecl(rtype, fname, n, pos, reg) ==
    rtype \o <<" ">> \o fname \o (IF pos = -1 THEN Annotation(reg) ELSE <<>>) \o <<"(">>
          \o Join([i \in 1..n |-> ArgText(ParamPool[i])
                                   \o (IF pos = i THEN Annotation(reg) ELSE <<>>)], <<","," ">>)
          \o <<")",";">>

S_eax == <<"e","a","x">>
S_Foo == <<"F","o","o">>

ThunkShapes ==
    {sh \in [rtype : {S_void, S_int}, n : 0..MaxParams, pos : -1..MaxParams] : sh.pos <= sh.n}

ShapeDecl(sh) == BuildDecl(sh.rtype, S_Foo, sh.n, sh.pos, S_eax)

\* the addr argument of Symbol.__init__: None, an int, a str
AddrNone == [t |-> "none", v |-> <<>>]
AddrInt(n) == [t |-> "int", v |-> n]
AddrStr(x) == [t |-> "str", v |-> x]

ThunkAddrs == {"none", "int", "str"}
ThunkAddr(t) ==
    IF t = "none" THEN AddrNone
    ELSE IF t = "int" THEN AddrInt(26)
    ELSE AddrStr(<<"0","x","1","0","0","0">>)

D_zed == <<"i","n","t"," ","z","e","d",";">>
D_yak == <<"i","n","t"," ","y","a","k",";">>
D_abe == <<"i","n","t"," ","a","b","e",";">>
F_Foo == BuildDecl(S_int, S_Foo, 2, 1, S_eax)
F_bar == BuildDecl(S_void, <<"b","a","r">>, 1, 0, S_eax)
F_Baz == BuildDecl(S_void, <<"B","a","z">>, 2, 2, S_eax)

FileSym(decl, addr) == [decl |-> decl, addr |-> addr]

ObjA == Some(<<"a">>)
ObjB == Some(<<"b">>)

\* the entries an initial kb.json is made of
SnapshotEntries ==
    <<[name |-> ObjB, source |-> Some("b.c"),
       functions |-> Some(<<FileSym(F_Foo, AddrStr(<<"0","x","1","0","0","0">>))>>),
       data |-> Some(<<FileSym(D_zed, AddrStr(<<"0","x","1","a">>))>>)],
      [name |-> ObjA, source |-> None,
       functions |-> None,
       data |-> Some(<<FileSym(D_yak, AddrStr(<<"0","x","1","a">>))>>)],
      [name |-> None, source |-> None,
       functions |-> Some(<<FileSym(F_bar, AddrNone)>>),
       data |-> None],
      [name |-> ObjA, source |-> Some("a.c"),
       functions |-> None,
       data |-> None],
      [name |-> ObjB, source |-> None,
       functions |-> Some(<<FileSym(F_Baz, AddrStr(<<"0","x","2","0">>))>>),
       data |-> None],
      [name |-> ObjB, source |-> None,
       functions |-> Some(<<FileSym(F_bar, AddrStr(<<"0","x","1","A">>))>>),
       data |-> Some(<<FileSym(D_abe, AddrStr(<<"0","x","1","0","0","0">>))>>)]>>

JsonFile(objects) == [state |-> "json", objects |-> objects]
TruncatedFile == [state |-> "truncated", objects |-> <<>>]

InitFiles ==
    {JsonFile([i \in 1..Len(pick) |-> SnapshotEntries[pick[i]]]) :
        pick \in UNION {[1..n -> 1..Len(SnapshotEntries)] : n \in 0..MaxObjs}}

\* the Symbol objects a caller constructs
NewSymbols ==
    {Symbol__init__("Data", D_yak, AddrInt(26)),
      Symbol__init__("Function", F_bar, AddrNone),
      Symbol__init__("Function", F_Foo, AddrStr(<<"0","x","1","0","0","0">>))}

-----------------------------------------------------------------------------
(* The operations.                                                         *)

\* no generated file was opened
Nothing == [header |-> <<>>, thunks |-> <<>>, def |-> <<>>]

Call(op, log, result) == [op |-> op, log |-> log, result |-> result]

\* no exception has ended the run
Running == err = ""

Range(seq) == {seq[i] : i \in 1..Len(seq)}

\* a file on disk and a knowledge base just constructed
Init ==
    /\ heap = KnowledgeBase__init__.heap
    /\ symbols = KnowledgeBase__init__.symbols
    /\ object_to_symbols = KnowledgeBase__init__.object_to_symbols
    /\ symbol_to_object = KnowledgeBase__init__.symbol_to_object
    /\ object_to_source = KnowledgeBase__init__.object_to_source
    /\ name_to_addr = KnowledgeBase__init__.name_to_addr
    /\ addr_to_symbol = <<>>
    /\ kb_file \in InitFiles
    /\ written = Nothing
    /\ call = Call("init", <<>>, NoThunk(""))
    /\ err = ""

\* kb = KnowledgeBase.deserialize(): the first step of a run, also of a run
\* started again after an aborted one; json.load raises on a truncated file
\* (misc/load_truth.py, lines 223-225, is absent: os.path.exists is false)
Deserialize ==
    /\ IF kb_file.state # "json"
       THEN /\ err' = "JSONDecodeError"
            /\ call' = Call("deserialize", <<>>, NoThunk(""))
            /\ UNCHANGED <<heap, symbols, object_to_symbols, symbol_to_object,
                           object_to_source, name_to_addr, addr_to_symbol>>
       ELSE \E kb \in {LoadKB(kb_file.objects)} :
                /\ heap' = kb.heap
                /\ symbols' = kb.symbols
                /\ object_to_symbols' = kb.object_to_symbols
                /\ symbol_to_object' = kb.symbol_to_object
                /\ object_to_source' = kb.object_to_source
                /\ name_to_addr' = kb.name_to_addr
                /\ addr_to_symbol' = AddrToSymbol(kb.heap, kb.symbols)
                /\ call' = Call("deserialize", DeserializeLog(kb), NoThunk(""))
                /\ err' = ""
    /\ written' = Nothing
    /\ UNCHANGED kb_file

\* the batches a caller passes to add_symbols: each element is a Symbol it
\* constructs for the call, or a Symbol object that already exists
BatchElements == [old : {0}, new : NewSymbols] \cup [old : 1..Len(heap), new : {heap}]

\* the identities of the elements of a batch, the constructed ones added to the heap
RECURSIVE BatchIds(_, _, _)
BatchIds(batch, h, ids) ==
    IF Len(batch) = 0 THEN [heap |-> h, ids |-> ids]
    ELSE IF batch[1].old = 0
    THEN BatchIds(Tail(batch), Append(h, batch[1].new), Append(ids, Len(h) + 1))
    ELSE BatchIds(Tail(batch), h, Append(ids, batch[1].old))

\* kb.add_symbols(batch)
AddSymbols ==
    /\ Running
    /\ \E n \in 1..(MaxSyms - Len(symbols)) :
          \E batch \in [1..n -> BatchElements] :
             /\ \E b \in {BatchIds(batch, heap, <<>>)} :
                   /\ heap' = b.heap
                   /\ symbols' = add_symbols(symbols, b.ids)
    /\ call' = Call("add_symbols", <<>>, NoThunk(""))
    /\ written' = Nothing
    /\ UNCHANGED <<object_to_symbols, symbol_to_object, object_to_source,
                   name_to_addr, addr_to_symbol, kb_file, err>>

\* kb.serialize(): kb.json is opened for writing, then written by json.dump
\* once every object is serialized
Serialize ==
    /\ Running
    /\ \E fin \in {Finalize(symbols, object_to_symbols, symbol_to_object)} :
       \E res \in {SerializeObjects(heap, object_to_source,
                                    ObjectOrder(fin.object_to_symbols),
                                    fin.object_to_symbols, <<>>)} :
           /\ symbol_to_object' = fin.symbol_to_object
           /\ object_to_symbols' = res.object_to_symbols
           /\ kb_file' = IF res.err = "" THEN JsonFile(res.objects) ELSE TruncatedFile
           /\ err' = res.err
    /\ call' = Call("serialize", <<>>, NoThunk(""))
    /\ written' = Nothing
    /\ UNCHANGED <<heap, symbols, object_to_source, name_to_addr, addr_to_symbol>>

\* kb.build_header()
BuildHeader ==
    /\ Running
    /\ \E res \in {build_header(heap, object_to_symbols, object_to_source)} :
           /\ written' = [header |-> res.lines, thunks |-> res.thunks, def |-> <<>>]
           /\ object_to_symbols' = res.object_to_symbols
           /\ err' = res.err
    /\ call' = Call("build_header", <<>>, NoThunk(""))
    /\ UNCHANGED <<heap, symbols, symbol_to_object, object_to_source, name_to_addr,
                   addr_to_symbol, kb_file>>

\* kb.build_def()
BuildDef ==
    /\ Running
    /\ written' = [header |-> <<>>, thunks |-> <<>>, def |-> build_def(heap, symbols)]
    /\ call' = Call("build_def", <<>>, NoThunk(""))
    /\ UNCHANGED <<heap, symbols, object_to_symbols, symbol_to_object, object_to_source,
                   name_to_addr, addr_to_symbol, kb_file, err>>

Next == Deserialize \/ AddSymbols \/ Serialize \/ BuildHeader \/ BuildDef

Spec == Init /\ [][Next]_vars

-----------------------------------------------------------------------------
(* gen_thunk as a function of the Function it is given.                    *)

InitThunk ==
    /\ \E sh \in ThunkShapes, t \in ThunkAddrs :
          heap = <<Symbol__init__("Function", ShapeDecl(sh), ThunkAddr(t))>>
    /\ symbols = <<>>
    /\ object_to_symbols = <<>>
    /\ symbol_to_object = <<>>
    /\ object_to_source = <<>>
    /\ name_to_addr = <<>>
    /\ addr_to_symbol = <<>>
    /\ kb_file = JsonFile(<<>>)
    /\ written = Nothing
    /\ call = Call("init", <<>>, NoThunk(""))
    /\ err = ""

\* kb.gen_thunk(s)
GenThunk ==
    /\ Running
    /\ \E id \in 1..Len(heap) :
          /\ isFunction(heap[id])
          /\ \E t \in {gen_thunk(heap[id])} :
                /\ call' = Call("gen_thunk", <<>>, t)
                /\ err' = IF t.status = "ok" THEN "" ELSE t.status
    /\ UNCHANGED <<heap, symbols, object_to_symbols, symbol_to_object, object_to_source,
                   name_to_addr, addr_to_symbol, kb_file, written>>

NextThunk == GenThunk

SpecThunk == InitThunk /\ [][NextThunk]_vars

-----------------------------------------------------------------------------
(* What the claims speak of.                                               *)

\* the declaration holds a register-binding annotation: @< then one or more
\* word characters then >
HasAnnotation(decl) ==
    \E i, j \in 1..Len(decl) :
        /\ i + 2 < j
        /\ decl[i] = "@" /\ decl[i + 1] = "<" /\ decl[j] = ">"
        /\ \A k \in (i + 2)..(j - 1) : IsWordChar(decl[k])

\* the shape gen_thunk's declaration was built from
ShapeOf(decl) == CHOOSE sh \in ThunkShapes : ShapeDecl(sh) = decl

ThunkCalled == call.op = "gen_thunk"
ThunkResult == call.result

\* what a knowledge base says of its symbols: variant, declaration, address, object
SymbolFacts(h, syms, s2o) ==
    {<<h[syms[i]].cls, h[syms[i]].decl, h[syms[i]].addr, s2o[syms[i]]>> : i \in 1..Len(syms)}

\* the positions of the buckets that hold the symbol id
Places(id) ==
    {<<k, i>> \in UNION {{k} \X (1..Len(object_to_symbols[k])) : k \in DOMAIN object_to_symbols} :
        object_to_symbols[k][i] = id}

RECURSIVE SumOfLens(_, _)
SumOfLens(d, keys) ==
    IF keys = {} THEN 0
    ELSE LET k == CHOOSE k \in keys : TRUE IN Len(d[k]) + SumOfLens(d, keys \ {k})

-----------------------------------------------------------------------------
(* C1. Round trip: deserialize applied to the snapshot serialize wrote      *)
(* yields an equal set of symbols (variant, declaration), equal addresses,  *)
(* equal object attributions and equal source mappings.                     *)
C1_RoundTrip ==
    call.op = "serialize" =>
        /\ kb_file.state = "json"
        /\ \E kb \in {LoadKB(kb_file.objects)} :
              /\ SymbolFacts(kb.heap, kb.symbols, kb.symbol_to_object)
                    = SymbolFacts(heap, symbols, symbol_to_object)
              /\ kb.object_to_source = object_to_source

(* C2. Attribution completeness: after the finalization loop of serialize,  *)
(* every symbol of kb.symbols is in exactly one bucket, exactly once, and   *)
(* the bucket sizes sum to len(kb.symbols).                                 *)
C2_AttributionComplete ==
    call.op = "serialize" =>
        /\ \A i \in 1..Len(symbols) : Cardinality(Places(symbols[i])) = 1
        /\ SumOfLens(object_to_symbols, DOMAIN object_to_symbols) = Len(symbols)

(* C3. Definition-file exclusion: no Function whose declaration holds a     *)
(* register-binding annotation is written to the output of build_def, and   *)
(* every other symbol of kb.symbols is.                                     *)
C3_DefExcludesAnnotated ==
    call.op = "build_def" =>
        /\ \A i \in 1..Len(written.def) :
              written.def[i].kind = "export" =>
                 ~(isFunction(heap[written.def[i].sym])
                     /\ HasAnnotation(heap[written.def[i].sym].decl))
        /\ \A k \in 1..Len(symbols) :
              ~(isFunction(heap[symbols[k]]) /\ HasAnnotation(heap[symbols[k]].decl)) =>
                 \E i \in 1..Len(written.def) :
                    written.def[i].kind = "export" /\ written.def[i].sym = symbols[k]

\* build_def ran on a knowledge base with an annotated Function, and wrote a symbol
C3_Witness ==
    /\ call.op = "build_def"
    /\ \E k \in 1..Len(symbols) :
          isFunction(heap[symbols[k]]) /\ HasAnnotation(heap[symbols[k]].decl)
    /\ \E i \in 1..Len(written.def) : written.def[i].kind = "export"

(* C4. Thunk preconditions: gen_thunk aborts with a failed assertion when   *)
(* the declaration has no annotation, when the annotation is on a parameter *)
(* after the first, and when it is on the return position; it succeeds when *)
(* the single annotation is on the first parameter.                         *)
C4_ThunkPreconditions ==
    ThunkCalled =>
        LET sh == ShapeOf(heap[1].decl)
        IN  /\ sh.pos = 0  => ThunkResult.status = "AssertionError"
            /\ sh.pos > 1  => ThunkResult.status = "AssertionError"
            /\ sh.pos = -1 => ThunkResult.status = "AssertionError"
            /\ sh.pos = 1  => ThunkResult.status = "ok"

(* C5. The shim of a Function annotated on its first parameter: it has the  *)
(* declaration's signature with the annotation stripped, moves the first    *)
(* parameter into the bound register, calls <name>__xbe with the parameters *)
(* after the first in their order, and returns the result exactly when the  *)
(* return type is not void.                                                 *)
C5_ShimForwards ==
    (ThunkCalled /\ ThunkResult.status = "ok") =>
        LET sh == ShapeOf(heap[1].decl)
            t  == ThunkResult
            stripped == BuildDecl(sh.rtype, S_Foo, sh.n, 0, S_eax)
        IN  /\ sh.pos = 1
            /\ t.signature \o <<";">> = stripped
            /\ t.reg = S_eax
            /\ t.mov_arg = ParamPool[1].spelling
            /\ t.callee = S_Foo \o S_xbe
            /\ t.call_args = Join([i \in 1..(sh.n - 1) |-> ParamPool[i + 1].spelling],
                                  <<",", " ">>)
            /\ t.ret = (IF sh.rtype = S_void THEN <<>> ELSE S_return)

\* a shim was made for a Function of three parameters that returns int
C5_Witness ==
    /\ ThunkCalled
    /\ ThunkResult.status = "ok"
    /\ ShapeOf(heap[1].decl).n = 3
    /\ ShapeOf(heap[1].decl).rtype = S_int

\* the header build_header wrote, and where its lines are
Header == written.header
SectionLines == {i \in 1..Len(Header) : Header[i].kind = "section"}
SymbolLines == {i \in 1..Len(Header) : Header[i].kind \in {"HDATA", "HFUNC"}}
SectionOf(i) == CHOOSE p \in SectionLines :
                    p < i /\ \A q \in SectionLines : q < i => q <= p

(* C6. Header ordering: the sections of the header are in lexicographic     *)
(* order of object name with the unattributed section last, one section per *)
(* object; within a section the Data lines come before the Function lines,  *)
(* each group ordered by resolved symbol name, and the lines of a section    *)
(* are symbols of that object's bucket.                                     *)
C6_HeaderOrdered ==
    call.op = "build_header" =>
        /\ \A p, q \in SectionLines :
              p < q => /\ Header[p].obj # None
                       /\ Header[q].obj # None => StrLess(Header[p].obj[1], Header[q].obj[1])
        /\ err = "" => /\ {Header[p].obj : p \in SectionLines} = DOMAIN object_to_symbols
                       /\ \E p \in SectionLines : Header[p].obj = None
        /\ \A i \in SymbolLines :
              /\ \E p \in SectionLines : p < i
              /\ Header[i].sym \in Range(object_to_symbols[Header[SectionOf(i)].obj])
              /\ Header[i].kind = "HFUNC" <=> isFunction(heap[Header[i].sym])
        /\ \A i, j \in SymbolLines :
              (i < j /\ SectionOf(i) = SectionOf(j)) =>
                 /\ ~(Header[i].kind = "HFUNC" /\ Header[j].kind = "HDATA")
                 /\ Header[i].kind = Header[j].kind =>
                       ~StrLess(name(heap[Header[j].sym]), name(heap[Header[i].sym]))

\* build_header wrote the whole header of a knowledge base that has a bucket
\* holding a Function before a Data, two of each
C6_Witness ==
    /\ call.op = "build_header"
    /\ err = ""
    /\ \E k \in DOMAIN object_to_symbols :
          LET b == object_to_symbols[k]
          IN  /\ \E i, j \in 1..Len(b) : i < j /\ isFunction(heap[b[i]]) /\ isData(heap[b[j]])
              /\ Cardinality({i \in 1..Len(b) : isData(heap[b[i]])}) >= 2
              /\ Cardinality({i \in 1..Len(b) : isFunction(heap[b[i]])}) >= 2
              /\ Cardinality({i \in SymbolLines : Header[SectionOf(i)].obj = k}) = Len(b)

(* C7. Unattributed symbols are emitted: after any deserialize and          *)
(* add_symbols calls, the header build_header writes to its end has a line  *)
(* for every symbol of kb.symbols.                                          *)
C7_HeaderHasEverySymbol ==
    (call.op = "build_header" /\ err = "") =>
        \A k \in 1..Len(symbols) :
            \E i \in SymbolLines : Header[i].sym = symbols[k]

(* C8. Address collision: after deserialize, two distinct symbols that      *)
(* share an address are flagged in what deserialize logs, and both are      *)
(* found in the address index.                                              *)
C8_CollisionFlagged ==
    (call.op = "deserialize" /\ err = "") =>
        \A i, j \in 1..Len(symbols) :
            (i < j /\ symbols[i] # symbols[j]
                   /\ heap[symbols[i]].addr # None
                   /\ heap[symbols[i]].addr = heap[symbols[j]].addr) =>
               /\ \E r \in Range(call.log) : r.msg = "collision"
               /\ \E a \in DOMAIN addr_to_symbol : addr_to_symbol[a] = symbols[i]
               /\ \E a \in DOMAIN addr_to_symbol : addr_to_symbol[a] = symbols[j]

(* C9. The emitters read only: build_header and build_def leave the         *)
(* symbols, the buckets, the attributions, the source mappings and the      *)
(* indexes of the knowledge base as they found them.                        *)
C9_EmittersReadOnly ==
    [][(BuildHeader \/ BuildDef) =>
          UNCHANGED <<heap, symbols, object_to_symbols, symbol_to_object,
                      object_to_source, name_to_addr, addr_to_symbol>>]_vars

\* the pieces of a text between its commas
RECURSIVE SplitComma(_)
SplitComma(t) ==
    IF t = <<>> THEN <<>>
    ELSE IF \A i \in 1..Len(t) : t[i] # "," THEN <<t>>
    ELSE LET i == CHOOSE i \in 1..Len(t) : t[i] = "," /\ \A j \in 1..(i - 1) : t[j] # ","
         IN  <<SubSeq(t, 1, i - 1)>> \o SplitComma(SubSeq(t, i + 1, Len(t)))

\* what follows the last space of a text
LastWord(t) ==
    LET sp == {i \in 1..Len(t) : t[i] = " "}
    IN  IF sp = {} THEN t
        ELSE SubSeq(t, (CHOOSE i \in sp : \A j \in sp : j <= i) + 1, Len(t))

\* the parameter names of the pointer declaration, read after its comment
PointerParams(text) ==
    LET close == CHOOSE i \in 2..Len(text) : text[i - 1] = "*" /\ text[i] = "/"
        rest  == SubSeq(text, close + 2, Len(text) - 1)
    IN  IF rest = S_void THEN <<>>
        ELSE [k \in 1..Len(SplitComma(rest)) |-> LastWord(SplitComma(rest)[k])]

\* the arguments of the call
CallArgs(text) == [k \in 1..Len(SplitComma(text)) |-> LastWord(SplitComma(text)[k])]

(* C10. The parameter list of the function-pointer declaration, read        *)
(* outside its comment, is the list of arguments the shim passes in its     *)
(* indirect call.                                                           *)
C10_PointerParamsAreCallArgs ==
    (ThunkCalled /\ ThunkResult.status = "ok") =>
        PointerParams(ThunkResult.new_func_decl) = CallArgs(ThunkResult.call_args)

====
